---- MODULE Spec2Model ----
(***************************************************************************)
(* EnableRightClick: the background service worker (src/unnamed/part_001), *)
(* its message handlers and tab listeners, as a state machine.             *)
(*                                                                         *)
(* Every `await` of a browser API is a suspension point: a handler is a    *)
(* small process whose steps are "the awaited API takes effect and the     *)
(* code after it runs up to the next API call".  Handlers of different     *)
(* requests and events interleave at these points.                         *)
(***************************************************************************)
EXTENDS Integers, Sequences, FiniteSets, TLC

VARIABLES
    storage,    \* chrome.storage.local "enabledOrigins": a sequence of origins
    granted,    \* origin match patterns the browser has granted to the extension
    active,     \* id of the active tab of the current window, or NoTab
    tabUrl,     \* tab id -> URL the tab is showing (NoUrl once closed)
    tabOpen,    \* tab id -> the tab exists
    tabStatus,  \* tab id -> "loading" (a navigation-complete event is due) or "complete"
    tabBadge,   \* tab id -> badge text of the toolbar icon for that tab
    marker,     \* tab id -> window.__enableRightClickInjected of the page in the tab
    slot,       \* handler slot -> the async handler running in it
    page,       \* tab id -> what the payload has installed in the page of the tab
    dom,        \* tab id -> the document of the page: listeners, added elements, dispatches
    popup,      \* the popup window of the toolbar icon
    snap,       \* history: the state before the handler that runs alone
    ops,        \* number of requests and events so far
    mode        \* the scenario explored: "seq", "conc", "wide" or "page" (see the Init's)

vars == <<storage, granted, active, tabUrl, tabOpen, tabStatus, tabBadge, marker, page, dom,
          popup, slot, snap, ops, mode>>

\* bounds of the exploration: requests and events per behaviour
MaxOps == 3
MaxConcOps == 2
MaxWideOps == 2
MaxPageListeners == 2

-----------------------------------------------------------------------------
(* Values *)

Tabs == {1, 2}
NoTab == 0
Slots == {1, 2}

UrlA == [protocol |-> "https:", host |-> "a.example", pathname |-> "/page"]
UrlB == [protocol |-> "http:", host |-> "b.example:8080", pathname |-> "/"]
UrlChrome == [protocol |-> "chrome:", host |-> "extensions", pathname |-> "/"]
NoUrl == [protocol |-> "", host |-> "", pathname |-> ""]
Urls == {UrlA, UrlB, UrlChrome}

Null == "null"

\* src/unnamed/part_001:53-64
extractOrigin(url) ==
    IF url.protocol = "http:" \/ url.protocol = "https:"
    THEN url.protocol \o "//" \o url.host
    ELSE Null

Origins == {extractOrigin(u) : u \in Urls} \ {Null}

\* an origin enabled in an earlier session whose page no tab shows now
OriginC == "https://c.example"

\* origin + "/*"
Pattern(origin) == origin \o "/*"

includes(origins, origin) == \E k \in 1..Len(origins) : origins[k] = origin

\* mutant: the filter keeps the origin and drops the others
filterOut_Inverted(origins, origin) == SelectSeq(origins, LAMBDA o : o = origin)

\* origins.filter((o) => o !== origin)
filterOut(origins, origin) == SelectSeq(origins, LAMBDA o : o # origin)

\* mutant: the origin is never pushed
pushIfAbsent_NoPush(origins, origin) == origins

\* mutant: the origin is pushed without the membership test
pushIfAbsent_Always(origins, origin) == Append(origins, origin)

\* if (!origins.includes(origin)) origins.push(origin)
pushIfAbsent(origins, origin) ==
    IF includes(origins, origin) THEN origins ELSE Append(origins, origin)

\* text: isEnabled ? "ON" : ""
badgeText(isEnabled) == IF isEnabled THEN "ON" ELSE ""

NoResp == [none |-> TRUE]

\* mutant: no try/catch in handleMessage, the exception ends the handler
ErrorResp_Unanswered == NoResp

\* catch (error) { sendResponse({ error: error.message }) }
ErrorResp == [error |-> "exception"]

Idle == [type |-> "idle", pc |-> "idle", tab |-> NoTab, origin |-> Null,
         origins |-> <<>>, arg |-> Null, ok |-> FALSE, threw |-> FALSE, i |-> 0,
         fx |-> {}, resp |-> NoResp]

\* content.js: the event types the payload deals with
BLOCKED_EVENTS == {"contextmenu", "selectstart", "copy", "cut", "paste"}
DRAG_EVENTS == {"dragstart", "drag"}
ALL_BLOCKED == BLOCKED_EVENTS \cup DRAG_EVENTS

\* a fresh page context: addEventListener is the browser's own, the payload
\* has registered no capture listener, added no style element, made no observer
FreshPage == [wrappers |-> 0, captures |-> [e \in ALL_BLOCKED |-> 0],
              styles |-> 0, observers |-> 0]

\* BLOCKED_EVENTS in the order of the array, the order forEach registers in
BLOCKED_ORDER == <<"contextmenu", "selectstart", "copy", "cut", "paste">>

\* the event targets of a page: the window, the document, the root element,
\* the head and the body the parser built, and a subtree a page script
\* creates: the element "n1" and its child "n2"
Static == {"window", "document", "html", "head", "body"}
Created == {"n1", "n2"}

NoCall == [none |-> TRUE]
NoEvent == [none |-> TRUE]

\* the document of a fresh page context. listeners: the event listener
\* list of each target, in registration order (an inline on<type> handler
\* is a non-capture listener of its element); body: document.body is not null; attached:
\* where the page appended n1; observing: observer.observe(document.body)
\* was called; pending: added nodes whose mutation record is not delivered
\* yet; call: the addEventListener call of this step; event: the dispatch
\* of this step; removed: the inline handlers this step set to null
FreshDom == [listeners |-> [n \in Static \cup Created |-> <<>>], body |-> TRUE,
             attached |-> "none", observing |-> FALSE, pending |-> {},
             call |-> NoCall, event |-> NoEvent, removed |-> {}]

\* a document without a body element (an XML or SVG document)
NoBodyDom == [FreshDom EXCEPT !.body = FALSE]

\* the popup window when it is not open
PopupClosed == [variant |-> "none", pc |-> "closed", h |-> 0, checked |-> FALSE,
                disabled |-> TRUE, label |-> FALSE, before |-> FALSE,
                action |-> "none", origin |-> Null, target |-> Null, last |-> NoResp]

NoSt == [none |-> TRUE]
NoEn == [none |-> TRUE]
NoChain == [none |-> TRUE]
NoSnap == [h |-> 0, pre |-> NoSt, en |-> NoEn, chain |-> NoChain,
           unknown |-> FALSE, afterUnknown |-> FALSE]

CurSt == [storage |-> storage, granted |-> granted, badge |-> tabBadge, marker |-> marker,
          tabs |-> <<active, tabUrl, tabOpen, tabStatus>>]

\* message types handleMessage has no case for
OtherTypes == {"enable", "disable", "ping"}

-----------------------------------------------------------------------------
(* Scheduling helpers *)

Quiescent == \A h \in Slots : slot[h].pc = "idle"

\* sendResponse and the handler's return run in one synchronous turn: nothing
\* else runs between them.
NoDone == \A h \in Slots : slot[h].pc # "done"

At(h, pc) == NoDone /\ slot[h].pc = pc

FreeSlot(h) == slot[h].pc = "idle" /\ \A g \in Slots : g < h => slot[g].pc # "idle"

\* one more request or event fits the bound
OpsBound ==
    CASE mode \in {"seq", "page"} -> MaxOps
      [] mode = "conc" -> MaxConcOps
      [] mode = "wide" -> MaxWideOps

Budget ==
    /\ ops < OpsBound
    /\ ops' = ops + 1
    /\ UNCHANGED <<mode, popup>>

\* a request or event may be dispatched now
Dispatch == mode = "conc" \/ Quiescent

Solo(h) == snap.h = h /\ snap.pre # NoSt

\* the history kept when a handler of type `type` starts in slot h
SnapAtStart(h, type) ==
    IF Quiescent
    THEN [h |-> h, pre |-> CurSt, en |-> NoEn,
          chain |-> IF snap.en # NoEn /\ type = "toggle"
                    THEN [pre |-> snap.pre, tab |-> snap.en.tab, origin |-> snap.en.origin]
                    ELSE NoChain,
          unknown |-> type \in OtherTypes,
          afterUnknown |-> snap.unknown]
    ELSE NoSnap

Start(h, type, tab, origin, arg, pc) ==
    /\ NoDone
    /\ Dispatch
    /\ Budget
    /\ FreeSlot(h)
    /\ slot' = [slot EXCEPT ![h] = [Idle EXCEPT !.type = type, !.pc = pc, !.tab = tab,
                                                !.origin = origin, !.arg = arg]]
    /\ snap' = SnapAtStart(h, type)

Respond(h, r) == slot' = [slot EXCEPT ![h].pc = "done", ![h].resp = r]

\* the allow-lists over `origins` the code can have stored: it never stores
\* an origin twice
AllowLists(origins) ==
    {l \in UNION {[1..n -> origins] : n \in 0..Cardinality(origins)} :
        \A j, k \in 1..Len(l) : l[j] = l[k] => j = k}

\* The service worker starts (browser start, or wake-up from idle) with
\* whatever earlier sessions left in chrome.storage.local and in the granted
\* permissions; tab badges and page contexts are fresh.
\* every tab has finished loading
Loaded == [t \in Tabs |-> "complete"]

InitBase(origins) ==
    /\ storage \in AllowLists(origins)
    /\ granted \in SUBSET {Pattern(o) : o \in origins}
    /\ active = 1
    /\ tabUrl = [t \in Tabs |-> IF t = 1 THEN UrlA ELSE UrlB]
    /\ tabOpen = [t \in Tabs |-> TRUE]
    /\ tabBadge = [t \in Tabs |-> ""]
    /\ marker = [t \in Tabs |-> FALSE]
    /\ page = [t \in Tabs |-> FreshPage]
    /\ dom = [t \in Tabs |-> FreshDom]
    /\ popup = PopupClosed
    /\ slot = [h \in Slots |-> Idle]
    /\ snap = NoSnap
    /\ ops = 0

\* handlers run one at a time (the tab may still change under a suspended handler)
Init == InitBase(Origins) /\ tabStatus = Loaded /\ mode = "seq"

\* requests and events are also dispatched while other handlers are suspended
InitConc == InitBase(Origins) /\ tabStatus = Loaded /\ mode = "conc"

\* handlers run one at a time; the lists of earlier sessions hold up to three origins
InitWide == InitBase(Origins \cup {OriginC}) /\ tabStatus = Loaded /\ mode = "wide"

-----------------------------------------------------------------------------
(* Browser services *)

OriginOf(t) == IF t = NoTab THEN Null ELSE extractOrigin(tabUrl[t])

\* chrome.scripting.executeScript can run the payload in the tab's page only
\* when the tab exists, shows an http(s) page and the extension holds the
\* host permission of that page.
CanInject(t) ==
    /\ t # NoTab
    /\ tabOpen[t]
    /\ OriginOf(t) # Null
    /\ Pattern(OriginOf(t)) \in granted

\* outcomes of executeScript: it may also fail on a page it could reach
\* (navigation in flight); the failure is caught and logged.
InjectOutcomes(t) == IF CanInject(t) THEN {TRUE, FALSE} ELSE {FALSE}

\* the payload: if (window.__enableRightClickInjected) return; ... = true
runPayload(mk, t) == [mk EXCEPT ![t] = TRUE]

\* mutant: the payload has no double-execution guard
payloadReturnsEarly_NoGuard(injected) == FALSE

\* if (window.__enableRightClickInjected) return;
payloadReturnsEarly(injected) == injected

\* the body of the payload in one page context: the addEventListener wrapper,
\* one capture listener on document per event of BLOCKED_EVENTS, the style
\* element, the mutation observer
payloadBody(pg) ==
    [wrappers |-> pg.wrappers + 1,
     captures |-> [e \in ALL_BLOCKED |->
                      pg.captures[e] + (IF e \in BLOCKED_EVENTS THEN 1 ELSE 0)],
     styles |-> pg.styles + 1,
     observers |-> pg.observers + 1]

\* content.js run in the page of tab t
runPayloadInPage(pg, mk, t) ==
    IF payloadReturnsEarly(mk[t]) THEN pg ELSE [pg EXCEPT ![t] = payloadBody(pg[t])]

\* the inline handlers in place: pairs of element and event type
Inline(ls) ==
    {p \in (Static \cup Created) \X (ALL_BLOCKED \cup {"click"}) :
        \E k \in 1..Len(ls[p[1]]) : ls[p[1]][k].via = "inline" /\ ls[p[1]][k].type = p[2]}

\* mutant: the inline handlers of the drag events are left in place
removeInlineHandlers_NoDrag(ls, element) ==
    [ls EXCEPT ![element] =
        SelectSeq(@, LAMBDA l : ~(l.via = "inline" /\ l.type \in BLOCKED_EVENTS))]

\* ALL_BLOCKED.forEach: if (element["on" + eventName] !== null) ... = null
removeInlineHandlers(ls, element) ==
    [ls EXCEPT ![element] =
        SelectSeq(@, LAMBDA l : ~(l.via = "inline" /\ l.type \in ALL_BLOCKED))]

\* the browser's EventTarget.prototype.addEventListener: the listener is
\* appended to the target's list unless the same callback is already there
\* for the same type and capture flag
originalAddEventListener(ls, this, type, owner, capture) ==
    LET l == [type |-> type, capture |-> capture, owner |-> owner,
              via |-> "addEventListener"]
    IN  IF \E k \in 1..Len(ls[this]) : ls[this][k] = l
        THEN ls
        ELSE [ls EXCEPT ![this] = Append(@, l)]

\* BLOCKED_EVENTS.forEach: originalAddEventListener.call(document, eventName,
\* e => e.stopImmediatePropagation(), { capture: true })
RECURSIVE registerCaptures(_, _)
registerCaptures(ls, k) ==
    IF k > Len(BLOCKED_ORDER) THEN ls
    ELSE registerCaptures(
             originalAddEventListener(ls, "document", BLOCKED_ORDER[k], "payload", TRUE),
             k + 1)

\* the body of the payload on the document: removeInlineHandlers on the
\* document, on the body if there is one and on the root element; the
\* capture listeners; the observer on the body if there is one
payloadDocument(d) ==
    LET l1 == removeInlineHandlers(d.listeners, "document")
        l2 == IF d.body THEN removeInlineHandlers(l1, "body") ELSE l1
        l3 == removeInlineHandlers(l2, "html")
    IN  [d EXCEPT !.listeners = registerCaptures(l3, 1),
                  !.observing = d.body,
                  !.call = NoCall,
                  !.event = NoEvent,
                  !.removed = Inline(d.listeners) \ Inline(l3)]

\* content.js run on the document of tab t
runPayloadInDocument(dm, mk, t) ==
    IF payloadReturnsEarly(mk[t]) THEN dm ELSE [dm EXCEPT ![t] = payloadDocument(dm[t])]

\* injectContentScript(tabId), then the handler goes on at `pc`
injectContentScript(h, pc) ==
    \E done \in InjectOutcomes(slot[h].tab) :
        /\ marker' = IF done THEN runPayload(marker, slot[h].tab) ELSE marker
        /\ page' = IF done THEN runPayloadInPage(page, marker, slot[h].tab) ELSE page
        /\ dom' = IF done THEN runPayloadInDocument(dom, marker, slot[h].tab) ELSE dom
        /\ slot' = [slot EXCEPT ![h].pc = pc,
                                ![h].fx = @ \cup (IF done THEN {"inject", "injected"}
                                                          ELSE {"inject"})
                                            \cup (IF done /\ marker[slot[h].tab]
                                                  THEN {"again"} ELSE {})]

\* chrome.permissions.remove({origins: [pattern]}): it may throw when the
\* grant is already gone; the grant is absent afterwards either way.
RevokeOutcomes(pattern) == IF pattern \in granted THEN {FALSE} ELSE {TRUE, FALSE}

\* mutant: the revoke takes every grant away
permissionsRemove_All(gr, pattern) == {}

permissionsRemove(gr, pattern) == gr \ {pattern}

\* outcomes of chrome.permissions.request: an existing grant resolves true
\* without a prompt, otherwise the user decides.
RequestOutcomes(pattern) == IF pattern \in granted THEN {TRUE} ELSE {TRUE, FALSE}

\* a navigation or reload gives the tab a fresh page context, and the browser
\* clears the tab-specific badge text at that point
BadgeAfterNavigation == ""

-----------------------------------------------------------------------------
(* handleMessage, case "toggle" *)

ToggleStart ==
    /\ \E h \in Slots : Start(h, "toggle", NoTab, Null, Null, "t_tab")
    /\ UNCHANGED <<storage, granted, active, tabUrl, tabOpen, tabStatus, tabBadge, marker, page, dom>>

\* const tab = await getCurrentTab(); checks; const origin = extractOrigin(tab.url)
ToggleTab(h) ==
    /\ At(h, "t_tab")
    /\ LET tab == active
           url == IF tab = NoTab THEN NoUrl ELSE tabUrl[tab]
           origin == extractOrigin(url)
       IN  IF tab = NoTab \/ url = NoUrl \/ origin = Null
           THEN Respond(h, [success |-> FALSE])
           ELSE slot' = [slot EXCEPT ![h].pc = "t_get", ![h].tab = tab, ![h].origin = origin]
    /\ UNCHANGED <<storage, granted, active, tabUrl, tabOpen, tabStatus, tabBadge, marker, page, dom, snap, ops, mode, popup>>

\* const origins = await getEnabledOrigins(); const isEnabled = origins.includes(origin)
ToggleBranch(isEnabled) == IF isEnabled THEN "d_get" ELSE "e_req"

ToggleGet(h) ==
    /\ At(h, "t_get")
    /\ slot' = [slot EXCEPT ![h].pc = ToggleBranch(includes(storage, slot[h].origin)),
                            ![h].origins = storage]
    /\ UNCHANGED <<storage, granted, active, tabUrl, tabOpen, tabStatus, tabBadge, marker, page, dom, snap, ops, mode, popup>>

\* sendResponse({ success, enabled: success })
EnableResponse(success) == [success |-> success, enabled |-> success]

\* mutant: the denial is not checked, the enable goes on
EnableAfterRequest_IgnoresDenial(h, isGranted) ==
    slot' = [slot EXCEPT ![h].pc = "e_get", ![h].ok = isGranted]

\* enableOrigin: const granted = await chrome.permissions.request(...);
\* if (!granted) return false
EnableAfterRequest(h, isGranted) ==
    IF ~isGranted
    THEN Respond(h, EnableResponse(FALSE))
    ELSE slot' = [slot EXCEPT ![h].pc = "e_get", ![h].ok = TRUE]

EnableRequest(h) ==
    /\ At(h, "e_req")
    /\ \E isGranted \in RequestOutcomes(Pattern(slot[h].origin)) :
          /\ granted' = IF isGranted THEN granted \cup {Pattern(slot[h].origin)} ELSE granted
          /\ EnableAfterRequest(h, isGranted)
    /\ UNCHANGED <<storage, active, tabUrl, tabOpen, tabStatus, tabBadge, marker, page, dom, snap, ops, mode, popup>>

\* const origins = await getEnabledOrigins(); if (!includes) { push; save }
EnableGet(h) ==
    /\ At(h, "e_get")
    /\ LET pushed == pushIfAbsent(storage, slot[h].origin) # storage
       IN  slot' = [slot EXCEPT ![h].pc = IF pushed THEN "e_save" ELSE "e_inj",
                                ![h].origins = pushIfAbsent(storage, slot[h].origin),
                                ![h].fx = @ \cup (IF pushed THEN {"pushed"} ELSE {})]
    /\ UNCHANGED <<storage, granted, active, tabUrl, tabOpen, tabStatus, tabBadge, marker, page, dom, snap, ops, mode, popup>>

\* await saveEnabledOrigins(origins)
EnableSave(h) ==
    /\ At(h, "e_save")
    /\ storage' = slot[h].origins
    /\ slot' = [slot EXCEPT ![h].pc = "e_inj"]
    /\ UNCHANGED <<granted, active, tabUrl, tabOpen, tabStatus, tabBadge, marker, page, dom, snap, ops, mode, popup>>

\* await injectContentScript(tabId)
EnableInject(h) ==
    /\ At(h, "e_inj")
    /\ injectContentScript(h, "e_badge")
    /\ UNCHANGED <<storage, granted, active, tabUrl, tabOpen, tabStatus, tabBadge, snap, ops, mode, popup>>

\* await updateBadge(tabId, true); return true; sendResponse(...)
\* (setBadgeText rejects for a tab that no longer exists: handleMessage's catch answers)
EnableBadge(h) ==
    /\ At(h, "e_badge")
    /\ IF tabOpen[slot[h].tab]
       THEN /\ tabBadge' = [tabBadge EXCEPT ![slot[h].tab] = badgeText(TRUE)]
            /\ Respond(h, EnableResponse(TRUE))
            /\ snap' = IF Solo(h)
                       THEN [snap EXCEPT !.en = [tab |-> slot[h].tab, origin |-> slot[h].origin]]
                       ELSE snap
       ELSE /\ Respond(h, ErrorResp)
            /\ UNCHANGED <<tabBadge, snap, ops, mode, popup>>
    /\ UNCHANGED <<storage, granted, active, tabUrl, tabOpen, tabStatus, marker, page, dom, ops, mode, popup>>

\* disableOrigin: const origins = await getEnabledOrigins(); updated = filter
DisableGet(h) ==
    /\ At(h, "d_get")
    /\ slot' = [slot EXCEPT ![h].pc = "d_save",
                            ![h].origins = filterOut(storage, slot[h].origin)]
    /\ UNCHANGED <<storage, granted, active, tabUrl, tabOpen, tabStatus, tabBadge, marker, page, dom, snap, ops, mode, popup>>

\* await saveEnabledOrigins(updated)
DisableSave(h) ==
    /\ At(h, "d_save")
    /\ storage' = slot[h].origins
    /\ slot' = [slot EXCEPT ![h].pc = "d_rm"]
    /\ UNCHANGED <<granted, active, tabUrl, tabOpen, tabStatus, tabBadge, marker, page, dom, snap, ops, mode, popup>>

\* mutant: no try/catch, a throwing revoke ends the handler
DisableAfterRevoke_Propagates(threw) == IF threw THEN "done" ELSE "d_badge"

\* try { await chrome.permissions.remove(...) } catch {}: where the handler
\* goes on after the revoke threw or not
DisableAfterRevoke(threw) == "d_badge"

DisableRevoke(h) ==
    /\ At(h, "d_rm")
    /\ \E threw \in RevokeOutcomes(Pattern(slot[h].origin)) :
          /\ granted' = permissionsRemove(granted, Pattern(slot[h].origin))
          /\ slot' = [slot EXCEPT ![h].pc = DisableAfterRevoke(threw), ![h].threw = threw]
    /\ UNCHANGED <<storage, active, tabUrl, tabOpen, tabStatus, tabBadge, marker, page, dom, snap, ops, mode, popup>>

\* await updateBadge(tabId, false)
DisableBadge(h) ==
    /\ At(h, "d_badge")
    /\ IF tabOpen[slot[h].tab]
       THEN /\ tabBadge' = [tabBadge EXCEPT ![slot[h].tab] = badgeText(FALSE)]
            /\ slot' = [slot EXCEPT ![h].pc = "d_reload"]
       ELSE /\ Respond(h, ErrorResp)
            /\ UNCHANGED tabBadge
    /\ UNCHANGED <<storage, granted, active, tabUrl, tabOpen, tabStatus, marker, page, dom, snap, ops, mode, popup>>

\* sendResponse({ success: true, enabled: false })
DisableResponse == [success |-> TRUE, enabled |-> FALSE]

\* await chrome.tabs.reload(tabId); back in handleMessage: sendResponse(...)
DisableReload(h) ==
    /\ At(h, "d_reload")
    /\ IF tabOpen[slot[h].tab]
       THEN /\ tabStatus' = [tabStatus EXCEPT ![slot[h].tab] = "loading"]
            /\ marker' = [marker EXCEPT ![slot[h].tab] = FALSE]
            /\ page' = [page EXCEPT ![slot[h].tab] = FreshPage]
            /\ dom' = [dom EXCEPT ![slot[h].tab] = FreshDom]
            /\ tabBadge' = [tabBadge EXCEPT ![slot[h].tab] = BadgeAfterNavigation]
            /\ slot' = [slot EXCEPT ![h].pc = "done", ![h].resp = DisableResponse,
                                    ![h].fx = @ \cup {"reload"}]
       ELSE /\ Respond(h, ErrorResp)
            /\ UNCHANGED <<tabStatus, marker, page, dom, tabBadge>>
    /\ UNCHANGED <<storage, granted, active, tabUrl, tabOpen, snap, ops, mode, popup>>

\* the handler returns after sendResponse
Finish(h) ==
    /\ slot[h].pc = "done"
    /\ popup.h # h
    /\ slot' = [slot EXCEPT ![h] = Idle]
    /\ UNCHANGED <<storage, granted, active, tabUrl, tabOpen, tabStatus, tabBadge, marker, page, dom, snap, ops, mode, popup>>

-----------------------------------------------------------------------------
(* The environment: the user and the browser *)

\* the tab navigates to another page
Navigate(t, url) ==
    /\ NoDone
    /\ tabOpen[t]
    /\ tabUrl' = [tabUrl EXCEPT ![t] = url]
    /\ tabStatus' = [tabStatus EXCEPT ![t] = "loading"]
    /\ marker' = [marker EXCEPT ![t] = FALSE]
    /\ page' = [page EXCEPT ![t] = FreshPage]
    /\ dom' = [dom EXCEPT ![t] = FreshDom]
    /\ tabBadge' = [tabBadge EXCEPT ![t] = BadgeAfterNavigation]
    /\ snap' = NoSnap
    /\ Budget
    /\ UNCHANGED <<storage, granted, active, tabOpen, slot>>

\* what closing tab t does to the tab itself
Closed(t) ==
    /\ tabOpen' = [tabOpen EXCEPT ![t] = FALSE]
    /\ tabUrl' = [tabUrl EXCEPT ![t] = NoUrl]
    /\ tabStatus' = [tabStatus EXCEPT ![t] = "complete"]
    /\ tabBadge' = [tabBadge EXCEPT ![t] = ""]
    /\ marker' = [marker EXCEPT ![t] = FALSE]
    /\ page' = [page EXCEPT ![t] = FreshPage]
    /\ dom' = [dom EXCEPT ![t] = FreshDom]

\* the user closes a tab that is not the active one, or the last tab
CloseTab(t) ==
    /\ NoDone
    /\ tabOpen[t]
    /\ active # t \/ \A u \in Tabs : u # t => ~tabOpen[u]
    /\ Closed(t)
    /\ active' = IF active = t THEN NoTab ELSE active
    /\ snap' = NoSnap
    /\ Budget
    /\ UNCHANGED <<storage, granted, slot>>

\* the user revokes a host permission in the browser's own settings
ExternalRevoke(pattern) ==
    /\ NoDone
    /\ pattern \in granted
    /\ granted' = granted \ {pattern}
    /\ snap' = NoSnap
    /\ Budget
    /\ UNCHANGED <<storage, active, tabUrl, tabOpen, tabStatus, tabBadge, marker, page, dom, slot>>

\* the explicit-intent popup asks for the permission itself, in the click
\* handler, for the origin of the tab it was opened on, and the user grants it
PopupRequest ==
    /\ NoDone
    /\ OriginOf(active) # Null
    /\ ~includes(storage, OriginOf(active))
    /\ Pattern(OriginOf(active)) \notin granted
    /\ granted' = granted \cup {Pattern(OriginOf(active))}
    /\ snap' = NoSnap
    /\ Budget
    /\ UNCHANGED <<storage, active, tabUrl, tabOpen, tabStatus, tabBadge, marker, page, dom, slot>>

-----------------------------------------------------------------------------
(* handleMessage, case "removeOrigin" *)

RemoveStart(origin) ==
    /\ \E h \in Slots : Start(h, "removeOrigin", NoTab, Null, origin, "r_get")
    /\ UNCHANGED <<storage, granted, active, tabUrl, tabOpen, tabStatus, tabBadge, marker, page, dom>>

\* const origins = await getEnabledOrigins(); updated = origins.filter(...)
RemoveGet(h) ==
    /\ At(h, "r_get")
    /\ slot' = [slot EXCEPT ![h].pc = "r_save", ![h].origins = filterOut(storage, slot[h].arg)]
    /\ UNCHANGED <<storage, granted, active, tabUrl, tabOpen, tabStatus, tabBadge, marker, page, dom, snap, ops, mode, popup>>

\* await saveEnabledOrigins(updated)
RemoveSave(h) ==
    /\ At(h, "r_save")
    /\ storage' = slot[h].origins
    /\ slot' = [slot EXCEPT ![h].pc = "r_rm"]
    /\ UNCHANGED <<granted, active, tabUrl, tabOpen, tabStatus, tabBadge, marker, page, dom, snap, ops, mode, popup>>

\* sendResponse({ success: true, origins: updated })
RemoveResponse(updated) == [success |-> TRUE, origins |-> updated]

\* try { await chrome.permissions.remove(...) } catch {}; sendResponse(...)
RemoveRevoke(h) ==
    /\ At(h, "r_rm")
    /\ \E threw \in RevokeOutcomes(Pattern(slot[h].arg)) :
          /\ granted' = permissionsRemove(granted, Pattern(slot[h].arg))
          /\ slot' = [slot EXCEPT ![h].pc = "done",
                                  ![h].resp = RemoveResponse(slot[h].origins)]
    /\ UNCHANGED <<storage, active, tabUrl, tabOpen, tabStatus, tabBadge, marker, page, dom, snap, ops, mode, popup>>

-----------------------------------------------------------------------------
(* handleMessage, case "removeAllOrigins" *)

RemoveAllStart ==
    /\ \E h \in Slots : Start(h, "removeAllOrigins", NoTab, Null, Null, "a_get")
    /\ UNCHANGED <<storage, granted, active, tabUrl, tabOpen, tabStatus, tabBadge, marker, page, dom>>

\* the loop `for (const origin of origins)`: where the handler goes on when i
\* of n origins have been handled
RemoveAllLoop(i, n) == IF i < n THEN "a_rm" ELSE "a_save"

\* const origins = await getEnabledOrigins()
RemoveAllGet(h) ==
    /\ At(h, "a_get")
    /\ slot' = [slot EXCEPT ![h].pc = RemoveAllLoop(0, Len(storage)),
                            ![h].origins = storage, ![h].i = 0]
    /\ UNCHANGED <<storage, granted, active, tabUrl, tabOpen, tabStatus, tabBadge, marker, page, dom, snap, ops, mode, popup>>

\* mutant: no try/catch in the loop, a throwing revoke ends the handler
RemoveAllAfterRevoke_Propagates(i, n, threw) ==
    IF threw THEN "done" ELSE IF i < n THEN "a_rm" ELSE "a_save"

\* try { ... } catch { /* ignored */ }: where the handler goes on after the
\* revoke of origin number i of n threw or not
RemoveAllAfterRevoke(i, n, threw) == RemoveAllLoop(i, n)

\* try { await chrome.permissions.remove({ origins: [origin + "/*"] }) } catch {}
RemoveAllRevoke(h) ==
    /\ At(h, "a_rm")
    /\ LET origin == slot[h].origins[slot[h].i + 1]
       IN  \E threw \in RevokeOutcomes(Pattern(origin)) :
              /\ granted' = permissionsRemove(granted, Pattern(origin))
              /\ slot' = [slot EXCEPT
                            ![h].pc = RemoveAllAfterRevoke(slot[h].i + 1,
                                                           Len(slot[h].origins), threw),
                            ![h].i = @ + 1, ![h].threw = @ \/ threw]
    /\ UNCHANGED <<storage, active, tabUrl, tabOpen, tabStatus, tabBadge, marker, page, dom, snap, ops, mode, popup>>

\* sendResponse({ success: true })
RemoveAllResponse == [success |-> TRUE]

\* await saveEnabledOrigins([]); sendResponse(...)
RemoveAllSave(h) ==
    /\ At(h, "a_save")
    /\ storage' = <<>>
    /\ slot' = [slot EXCEPT ![h].pc = "done", ![h].resp = RemoveAllResponse]
    /\ UNCHANGED <<granted, active, tabUrl, tabOpen, tabStatus, tabBadge, marker, page, dom, snap, ops, mode, popup>>

-----------------------------------------------------------------------------
(* handleMessage, cases "getStatus" and "getEnabledOrigins", and the default case *)

GetStatusStart ==
    /\ \E h \in Slots : Start(h, "getStatus", NoTab, Null, Null, "s_tab")
    /\ UNCHANGED <<storage, granted, active, tabUrl, tabOpen, tabStatus, tabBadge, marker, page, dom>>

\* sendResponse({ enabled: false, origin: null, supported: false })
UnsupportedStatus == [enabled |-> FALSE, origin |-> Null, supported |-> FALSE]

\* mutant: the status never reports the origin as enabled
StatusResponse_NeverEnabled(enabled, origin) ==
    [enabled |-> FALSE, origin |-> origin, supported |-> TRUE]

\* sendResponse({ enabled, origin, supported: true })
StatusResponse(enabled, origin) ==
    [enabled |-> enabled, origin |-> origin, supported |-> TRUE]

\* const tab = await getCurrentTab(); if (!tab?.url) ...;
\* const origin = extractOrigin(tab.url); if (!origin) ...
GetStatusTab(h) ==
    /\ At(h, "s_tab")
    /\ LET tab == active
           url == IF tab = NoTab THEN NoUrl ELSE tabUrl[tab]
           origin == extractOrigin(url)
       IN  IF tab = NoTab \/ url = NoUrl \/ origin = Null
           THEN Respond(h, UnsupportedStatus)
           ELSE slot' = [slot EXCEPT ![h].pc = "s_get", ![h].tab = tab, ![h].origin = origin]
    /\ UNCHANGED <<storage, granted, active, tabUrl, tabOpen, tabStatus, tabBadge, marker, page, dom, snap, ops, mode, popup>>

\* const origins = await getEnabledOrigins(); const enabled = origins.includes(origin)
GetStatusGet(h) ==
    /\ At(h, "s_get")
    /\ Respond(h, StatusResponse(includes(storage, slot[h].origin), slot[h].origin))
    /\ UNCHANGED <<storage, granted, active, tabUrl, tabOpen, tabStatus, tabBadge, marker, page, dom, snap, ops, mode, popup>>

ListStart ==
    /\ \E h \in Slots : Start(h, "getEnabledOrigins", NoTab, Null, Null, "l_get")
    /\ UNCHANGED <<storage, granted, active, tabUrl, tabOpen, tabStatus, tabBadge, marker, page, dom>>

\* mutant: the list request answers with an empty list
ListResponse_Empty(origins) == [origins |-> <<>>]

\* sendResponse({ origins })
ListResponse(origins) == [origins |-> origins]

\* const origins = await getEnabledOrigins(); sendResponse({ origins })
ListGet(h) ==
    /\ At(h, "l_get")
    /\ Respond(h, ListResponse(storage))
    /\ UNCHANGED <<storage, granted, active, tabUrl, tabOpen, tabStatus, tabBadge, marker, page, dom, snap, ops, mode, popup>>

\* mutant: the default case answers nothing
UnknownResponse_None == NoResp

\* default: sendResponse({ error: "Unknown message type" })
UnknownResponse == [error |-> "Unknown message type"]

\* a message of a type without a case: the switch falls to the default
\* case, which answers in the turn the message arrived in
OtherStart(type) ==
    /\ NoDone
    /\ Dispatch
    /\ Budget
    /\ \E h \in Slots :
          /\ FreeSlot(h)
          /\ slot' = [slot EXCEPT ![h] = [Idle EXCEPT !.type = type, !.pc = "done",
                                                      !.resp = UnknownResponse]]
          /\ snap' = SnapAtStart(h, type)
    /\ UNCHANGED <<storage, granted, active, tabUrl, tabOpen, tabStatus, tabBadge, marker, page, dom>>

-----------------------------------------------------------------------------
(* The popup: src/popup.js sends "toggle", src/unnamed/part_000 asks for the   *)
(* status again, requests the permission itself and sends "enable"/"disable" *)

PopupVariants == {"toggle", "explicit"}

\* handleMessage's switch: where a message of `type` sent by the popup enters
Entry(type) ==
    CASE type = "getStatus" -> [Idle EXCEPT !.type = type, !.pc = "s_tab"]
      [] type = "toggle" -> [Idle EXCEPT !.type = type, !.pc = "t_tab"]
      [] OTHER -> [Idle EXCEPT !.type = type, !.pc = "done", !.resp = UnknownResponse]

\* chrome.runtime.sendMessage({ type }) from the popup, handled in slot h
Send(h, type) ==
    /\ NoDone
    /\ Dispatch
    /\ ops < OpsBound
    /\ ops' = ops + 1
    /\ FreeSlot(h)
    /\ slot' = [slot EXCEPT ![h] = Entry(type)]
    /\ snap' = SnapAtStart(h, type)
    /\ UNCHANGED <<storage, granted, active, tabUrl, tabOpen, tabStatus, tabBadge, marker, page, dom, mode>>

\* the popup opens: DOMContentLoaded, sendMessage({ type: "getStatus" })
PopupOpen(variant) ==
    /\ popup.pc = "closed"
    /\ \E h \in Slots :
          /\ Send(h, "getStatus")
          /\ popup' = [PopupClosed EXCEPT !.variant = variant, !.pc = "p_status", !.h = h]

\* if (result.success)
succeeded(result) == "success" \in DOMAIN result /\ result.success

\* if (result.success) { updateLabel(result.enabled); toggle.checked = result.enabled }
\* else { toggle.checked = !toggle.checked }  toggle.disabled = false
afterResult(pp, result) ==
    IF succeeded(result)
    THEN [pp EXCEPT !.label = result.enabled, !.checked = result.enabled,
                    !.disabled = FALSE, !.pc = "ready", !.h = 0, !.last = result]
    ELSE [pp EXCEPT !.checked = ~@, !.disabled = FALSE, !.pc = "ready", !.h = 0,
                    !.last = result]

\* the status arrived at DOMContentLoaded: the unsupported message, or the
\* origin and the control showing status.enabled
afterStatus(pp, status) ==
    IF ~status.supported
    THEN [pp EXCEPT !.pc = "unsupported", !.h = 0]
    ELSE [pp EXCEPT !.origin = status.origin, !.checked = status.enabled,
                    !.disabled = FALSE, !.label = status.enabled, !.pc = "ready", !.h = 0]

\* part_000: const action = isCurrentlyEnabled ? "disable" : "enable"
actionFor(isCurrentlyEnabled) == IF isCurrentlyEnabled THEN "disable" ELSE "enable"

\* part_000: the status asked for in the change handler arrived
afterCurrentStatus(pp, currentStatus) ==
    [pp EXCEPT !.target = currentStatus.origin,
               !.action = actionFor(currentStatus.enabled),
               !.pc = IF actionFor(currentStatus.enabled) = "enable" THEN "x_req" ELSE "x_send",
               !.h = 0]

\* the response of the background reaches the popup, which goes on after
\* its `await chrome.runtime.sendMessage(...)`
PopupReceive ==
    /\ popup.h # 0
    /\ slot[popup.h].pc = "done"
    /\ LET r == slot[popup.h].resp
       IN  popup' = CASE popup.pc = "p_status" -> afterStatus(popup, r)
                      [] popup.pc = "x_status" -> afterCurrentStatus(popup, r)
                      [] OTHER -> afterResult(popup, r)
    /\ slot' = [slot EXCEPT ![popup.h] = Idle]
    /\ UNCHANGED <<storage, granted, active, tabUrl, tabOpen, tabStatus, tabBadge, marker, page, dom, snap, ops, mode>>

\* the user clicks the control: the browser flips it, the change handler
\* disables it and sends its first message
PopupClick ==
    /\ popup.pc = "ready"
    /\ ~popup.disabled
    /\ \E h \in Slots :
          /\ Send(h, IF popup.variant = "toggle" THEN "toggle" ELSE "getStatus")
          /\ popup' = [popup EXCEPT !.before = popup.checked, !.checked = ~popup.checked,
                                    !.disabled = TRUE, !.h = h, !.last = NoResp,
                                    !.pc = IF popup.variant = "toggle"
                                           THEN "p_toggle" ELSE "x_status"]

\* what the popup shows after the user denied the permission
\* (part_000: toggle.checked = false; toggle.disabled = false; return)
afterDenial(pp) ==
    [pp EXCEPT !.checked = FALSE, !.disabled = FALSE, !.pc = "ready",
               !.last = [denied |-> TRUE]]

\* part_000: const granted = await chrome.permissions.request({ origins: [origin + "/*"] });
\* a null origin gives the pattern "null/*", which the browser rejects: the
\* change handler ends there with an unhandled rejection
PopupPermission ==
    /\ popup.pc = "x_req"
    /\ NoDone
    /\ IF popup.target = Null
       THEN /\ popup' = [popup EXCEPT !.pc = "stuck", !.last = ErrorResp]
            /\ UNCHANGED granted
       ELSE \E isGranted \in RequestOutcomes(Pattern(popup.target)) :
              /\ granted' = IF isGranted THEN granted \cup {Pattern(popup.target)}
                                         ELSE granted
              /\ popup' = IF isGranted THEN [popup EXCEPT !.pc = "x_send"]
                                       ELSE afterDenial(popup)
    /\ snap' = NoSnap
    /\ UNCHANGED <<storage, active, tabUrl, tabOpen, tabStatus, tabBadge, marker, page, dom, slot, ops, mode>>

\* part_000: const result = await chrome.runtime.sendMessage({ type: action })
PopupSend ==
    /\ popup.pc = "x_send"
    /\ \E h \in Slots :
          /\ Send(h, popup.action)
          /\ popup' = [popup EXCEPT !.pc = "x_act", !.h = h]

PopupStep ==
    \/ \E variant \in PopupVariants : PopupOpen(variant)
    \/ PopupReceive
    \/ PopupClick
    \/ PopupPermission
    \/ PopupSend

-----------------------------------------------------------------------------
(* chrome.tabs.onUpdated listener *)

\* the navigation-complete event of tab t is delivered:
\* if (changeInfo.status !== "complete" || !tab.url) return;
\* const origin = extractOrigin(tab.url); if (!origin) return;
UpdatedStart(t) ==
    /\ tabOpen[t]
    /\ tabStatus[t] = "loading"
    /\ \E h \in Slots :
          Start(h, "onUpdated", t, extractOrigin(tabUrl[t]), Null,
                IF extractOrigin(tabUrl[t]) = Null THEN "done" ELSE "u_get")
    /\ tabStatus' = [tabStatus EXCEPT ![t] = "complete"]
    /\ UNCHANGED <<storage, granted, active, tabUrl, tabOpen, tabBadge, marker, page, dom>>

\* const origins = await getEnabledOrigins(); if (origins.includes(origin)) ...
UpdatedGet(h) ==
    /\ At(h, "u_get")
    /\ slot' = [slot EXCEPT ![h].pc = IF includes(storage, slot[h].origin)
                                      THEN "u_perm" ELSE "done",
                            ![h].origins = storage]
    /\ UNCHANGED <<storage, granted, active, tabUrl, tabOpen, tabStatus, tabBadge, marker, page, dom, snap, ops, mode, popup>>

\* mutant: the permission is not checked before injecting
UpdatedBranch_NoCheck(hasPermission) == "u_inj"

\* where the handler goes on after chrome.permissions.contains
UpdatedBranch(hasPermission) == IF hasPermission THEN "u_inj" ELSE "u_save"

\* mutant: the listener asks for the permission instead of testing it
afterContains_Requests(gr, pattern) == gr \cup {pattern}

\* chrome.permissions.contains only reads: the grants after the call
afterContains(gr, pattern) == gr

\* const hasPermission = await chrome.permissions.contains(...);
\* else-branch: const updated = origins.filter((o) => o !== origin)
UpdatedContains(h) ==
    /\ At(h, "u_perm")
    /\ granted' = afterContains(granted, Pattern(slot[h].origin))
    /\ LET hasPermission == Pattern(slot[h].origin) \in granted
       IN  slot' = [slot EXCEPT ![h].pc = UpdatedBranch(hasPermission),
                                ![h].ok = hasPermission,
                                ![h].origins = IF hasPermission THEN @
                                               ELSE filterOut(@, slot[h].origin)]
    /\ UNCHANGED <<storage, active, tabUrl, tabOpen, tabStatus, tabBadge, marker, page, dom, snap, ops, mode, popup>>

\* await injectContentScript(tabId)
UpdatedInject(h) ==
    /\ At(h, "u_inj")
    /\ injectContentScript(h, "u_badge")
    /\ UNCHANGED <<storage, granted, active, tabUrl, tabOpen, tabStatus, tabBadge, snap, ops, mode, popup>>

\* await updateBadge(tabId, true) (a rejection for a closed tab ends the listener)
UpdatedBadge(h) ==
    /\ At(h, "u_badge")
    /\ tabBadge' = IF tabOpen[slot[h].tab]
                   THEN [tabBadge EXCEPT ![slot[h].tab] = badgeText(TRUE)]
                   ELSE tabBadge
    /\ slot' = [slot EXCEPT ![h].pc = "done"]
    /\ UNCHANGED <<storage, granted, active, tabUrl, tabOpen, tabStatus, marker, page, dom, snap, ops, mode, popup>>

\* await saveEnabledOrigins(updated)
UpdatedSave(h) ==
    /\ At(h, "u_save")
    /\ storage' = slot[h].origins
    /\ slot' = [slot EXCEPT ![h].pc = "done"]
    /\ UNCHANGED <<granted, active, tabUrl, tabOpen, tabStatus, tabBadge, marker, page, dom, snap, ops, mode, popup>>

-----------------------------------------------------------------------------
(* chrome.tabs.onActivated listener *)

\* the user switches to tab t: the activation event is delivered
ActivatedStart(t) ==
    /\ tabOpen[t]
    /\ active # t
    /\ \E h \in Slots : Start(h, "onActivated", t, Null, Null, "v_tab")
    /\ active' = t
    /\ UNCHANGED <<storage, granted, tabUrl, tabOpen, tabStatus, tabBadge, marker, page, dom>>

\* the user closes the active tab t and the browser activates tab u
CloseActiveTab(t, u) ==
    /\ tabOpen[t] /\ active = t
    /\ u # t /\ tabOpen[u]
    /\ Closed(t)
    /\ active' = u
    /\ Dispatch
    /\ \E h \in Slots :
          /\ NoDone
          /\ FreeSlot(h)
          /\ slot' = [slot EXCEPT ![h] = [Idle EXCEPT !.type = "onActivated",
                                                      !.pc = "v_tab", !.tab = u]]
    /\ snap' = NoSnap
    /\ Budget
    /\ UNCHANGED <<storage, granted>>

\* const tab = await chrome.tabs.get(activeInfo.tabId); if (!tab.url) return;
\* const origin = extractOrigin(tab.url); if (!origin) updateBadge(tabId, false)
ActivatedTab(h) ==
    /\ At(h, "v_tab")
    /\ slot' = [slot EXCEPT
                  ![h].pc = IF ~tabOpen[slot[h].tab] THEN "done"
                            ELSE IF OriginOf(slot[h].tab) = Null THEN "v_badge"
                            ELSE "v_get",
                  ![h].origin = OriginOf(slot[h].tab)]
    /\ UNCHANGED <<storage, granted, active, tabUrl, tabOpen, tabStatus, tabBadge, marker, page, dom, snap, ops, mode, popup>>

\* const origins = await getEnabledOrigins(); const isEnabled = origins.includes(origin)
ActivatedGet(h) ==
    /\ At(h, "v_get")
    /\ slot' = [slot EXCEPT ![h].pc = "v_badge", ![h].origins = storage,
                            ![h].ok = includes(storage, slot[h].origin)]
    /\ UNCHANGED <<storage, granted, active, tabUrl, tabOpen, tabStatus, tabBadge, marker, page, dom, snap, ops, mode, popup>>

\* await updateBadge(activeInfo.tabId, isEnabled) (a rejection is caught)
ActivatedBadge(h) ==
    /\ At(h, "v_badge")
    /\ tabBadge' = IF tabOpen[slot[h].tab]
                   THEN [tabBadge EXCEPT ![slot[h].tab] = badgeText(slot[h].ok)]
                   ELSE tabBadge
    /\ slot' = [slot EXCEPT ![h].pc = "done"]
    /\ UNCHANGED <<storage, granted, active, tabUrl, tabOpen, tabStatus, marker, page, dom, snap, ops, mode, popup>>

-----------------------------------------------------------------------------
(* The page: its scripts, the browser's event dispatch, the mutation observer *)

\* the page looked at, and the event types, listener targets and elements
\* its scripts use: an event of BLOCKED_EVENTS, one of DRAG_EVENTS and one
\* the payload does not deal with
PageTabs == {1}
EventTypes == {"contextmenu", "dragstart", "click"}
ListenerTargets == {"document", "n1"}
CaptureOptions(target) == IF target = "document" THEN BOOLEAN ELSE {FALSE}
InlineElements == {"document", "html", "body", "n1", "n2"}
InlineTypes == {"contextmenu", "dragstart"}

\* the event targets that exist in document d
Exists(d) == (Static \ (IF d.body THEN {} ELSE {"body"})) \cup Created

\* the parent of a node on the event path (the path of a node in a document
\* ends at the window); n1 has one once the page appended it
NoParent == "none"
Parent(d, n) ==
    CASE n = "window" -> NoParent
      [] n = "document" -> "window"
      [] n = "html" -> "document"
      [] n \in {"head", "body"} -> "html"
      [] n = "n1" -> d.attached
      [] n = "n2" -> "n1"

\* the event path of a dispatch at node n, outermost target first
RECURSIVE PathTo(_, _)
PathTo(d, n) ==
    IF Parent(d, n) = NoParent THEN <<n>> ELSE Append(PathTo(d, Parent(d, n)), n)

\* node.querySelectorAll("*"): the descendants of an added node
querySelectorAll(n) == IF n = "n1" THEN {"n2"} ELSE {}

\* mutant: the wrapper lets the drag events through
skipped_NoDrag(type) == type \in BLOCKED_EVENTS

\* if (ALL_BLOCKED.includes(type)) return;
skipped(type) == type \in ALL_BLOCKED

\* the number of listeners and inline handlers the page has in place
OfPage(ls, n) == Len(SelectSeq(ls[n], LAMBDA l : l.owner = "page"))
Total(ls) ==
    OfPage(ls, "window") + OfPage(ls, "document") + OfPage(ls, "html") + OfPage(ls, "head")
        + OfPage(ls, "body") + OfPage(ls, "n1") + OfPage(ls, "n2")

\* one more listener or inline handler of the page fits the bound
Room(d) == Total(d.listeners) < MaxPageListeners

\* the innermost element of the document, where the user acts
Innermost(d) ==
    IF d.attached # "none" THEN "n2" ELSE IF d.body THEN "body" ELSE "html"

\* EventTarget.prototype.addEventListener as a page script finds it: the
\* browser's own, or the payload's wrapper once the payload has run
addEventListener(pg, ls, this, type, capture) ==
    IF pg.wrappers > 0 /\ skipped(type)
    THEN ls
    ELSE originalAddEventListener(ls, this, type, "page", capture)

\* Page scripts and dispatches are shown while no handler of the worker is
\* in flight: they touch the document only, the handler's steps other than
\* the injection do not touch it, so a page step between two handler steps
\* has the effect of the same step before or after the handler.

\* a page script calls target.addEventListener(type, listener, { capture })
PageAddListener(t, target, type, capture) ==
    /\ Quiescent
    /\ tabOpen[t]
    /\ target \in Exists(dom[t])
    /\ Room(dom[t])
    /\ dom' = [dom EXCEPT ![t].listeners = addEventListener(page[t], @, target, type, capture),
                          ![t].call = [this |-> target, type |-> type, capture |-> capture],
                          ![t].event = NoEvent,
                          ![t].removed = {}]
    /\ UNCHANGED <<storage, granted, active, tabUrl, tabOpen, tabStatus, tabBadge, marker, page, slot, snap, ops, mode, popup>>

\* the page gives an element an inline handler: <body oncontextmenu="...">
\* or element.oncontextmenu = f
setInlineHandler(ls, element, type) ==
    LET l == [type |-> type, capture |-> FALSE, owner |-> "page", via |-> "inline"]
    IN  IF \E k \in 1..Len(ls[element]) : ls[element][k] = l
        THEN ls
        ELSE [ls EXCEPT ![element] = Append(@, l)]

PageSetInline(t, element, type) ==
    /\ Quiescent
    /\ tabOpen[t]
    /\ element \in Exists(dom[t])
    /\ Room(dom[t])
    /\ dom' = [dom EXCEPT ![t].listeners = setInlineHandler(@, element, type),
                          ![t].call = NoCall,
                          ![t].event = NoEvent,
                          ![t].removed = {}]
    /\ UNCHANGED <<storage, granted, active, tabUrl, tabOpen, tabStatus, tabBadge, marker, page, slot, snap, ops, mode, popup>>

\* a page script appends the subtree n1 (with its child n2) to the body;
\* the observer, if it observes the body, queues a record with n1 in
\* addedNodes
PageAppend(t) ==
    /\ Quiescent
    /\ tabOpen[t]
    /\ dom[t].attached = "none"
    /\ "body" \in Exists(dom[t])
    /\ dom' = [dom EXCEPT ![t].attached = "body",
                          ![t].pending = IF dom[t].observing THEN @ \cup {"n1"} ELSE @,
                          ![t].call = NoCall,
                          ![t].event = NoEvent,
                          ![t].removed = {}]
    /\ UNCHANGED <<storage, granted, active, tabUrl, tabOpen, tabStatus, tabBadge, marker, page, slot, snap, ops, mode, popup>>

\* removeInlineHandlers applied to each element of a set
RECURSIVE removeInlineHandlersAll(_, _)
removeInlineHandlersAll(ls, elements) ==
    IF elements = {} THEN ls
    ELSE LET e == CHOOSE x \in elements : TRUE
         IN  removeInlineHandlersAll(removeInlineHandlers(ls, e), elements \ {e})

\* the elements the observer callback clears: each added node and
\* node.querySelectorAll("*")
handled(nodes) == nodes \cup UNION {querySelectorAll(n) : n \in nodes}

\* the observer callback runs with the queued records
MutationCallback(t) ==
    /\ NoDone
    /\ dom[t].pending # {}
    /\ LET after == removeInlineHandlersAll(dom[t].listeners, handled(dom[t].pending))
       IN  dom' = [dom EXCEPT ![t].listeners = after,
                              ![t].pending = {},
                              ![t].call = NoCall,
                              ![t].event = NoEvent,
                              ![t].removed = Inline(dom[t].listeners) \ Inline(after)]
    /\ UNCHANGED <<storage, granted, active, tabUrl, tabOpen, tabStatus, tabBadge, marker, page, slot, snap, ops, mode, popup>>

\* the listeners of one node the dispatch invokes in one phase, in
\* registration order
ListenersAt(ls, node, type, capture) ==
    LET at == SelectSeq(ls[node], LAMBDA l : l.type = type /\ l.capture = capture)
    IN  [k \in 1..Len(at) |-> [target |-> node, capture |-> capture,
                                owner |-> at[k].owner, via |-> at[k].via]]

\* capture phase: from the window down to the target
RECURSIVE CapturePhase(_, _, _, _)
CapturePhase(ls, path, type, k) ==
    IF k > Len(path) THEN <<>>
    ELSE ListenersAt(ls, path[k], type, TRUE) \o CapturePhase(ls, path, type, k + 1)

\* bubble phase: from the target up to the window
RECURSIVE BubblePhase(_, _, _, _)
BubblePhase(ls, path, type, k) ==
    IF k < 1 THEN <<>>
    ELSE ListenersAt(ls, path[k], type, FALSE) \o BubblePhase(ls, path, type, k - 1)

\* the listeners the dispatch would invoke if none stopped the event
Calls(d, type, target) ==
    LET path == PathTo(d, target)
    IN  CapturePhase(d.listeners, path, type, 1)
            \o BubblePhase(d.listeners, path, type, Len(path))

\* e.stopImmediatePropagation() in the payload's listener: no listener
\* after it is invoked; the page's handlers invoked before it
RECURSIVE UntilStopped(_)
UntilStopped(calls) ==
    IF calls = <<>> THEN <<>>
    ELSE IF Head(calls).owner = "payload" THEN <<>>
    ELSE <<Head(calls)>> \o UntilStopped(Tail(calls))

\* the browser dispatches an event of a bubbling type at the innermost
\* element of the document (the user right-clicks, drags, clicks there); the
\* page has a handler for the type on the event's path
PageDispatch(t, type) ==
    LET target == Innermost(dom[t])
        calls == Calls(dom[t], type, target)
    IN  /\ Quiescent
        /\ tabOpen[t]
        /\ \E k \in 1..Len(calls) : calls[k].owner = "page"
        /\ dom' = [dom EXCEPT ![t].event = [type |-> type, target |-> target,
                                            injected |-> marker[t],
                                            ran |-> UntilStopped(calls)],
                              ![t].call = NoCall,
                              ![t].removed = {}]
        /\ UNCHANGED <<storage, granted, active, tabUrl, tabOpen, tabStatus, tabBadge, marker, page, slot, snap, ops, mode, popup>>

PageStep ==
    \/ \E t \in PageTabs : \E target \in ListenerTargets : \E type \in EventTypes :
          \E capture \in CaptureOptions(target) : PageAddListener(t, target, type, capture)
    \/ \E t \in PageTabs : \E element \in InlineElements : \E type \in InlineTypes :
          PageSetInline(t, element, type)
    \/ \E t \in PageTabs : PageAppend(t)
    \/ \E t \in PageTabs : MutationCallback(t)
    \/ \E t \in PageTabs : \E type \in EventTypes : PageDispatch(t, type)

-----------------------------------------------------------------------------
(* Specifications *)

HandlerStep(h) ==
    \/ ToggleTab(h) \/ ToggleGet(h)
    \/ EnableRequest(h) \/ EnableGet(h) \/ EnableSave(h) \/ EnableInject(h) \/ EnableBadge(h)
    \/ DisableGet(h) \/ DisableSave(h) \/ DisableRevoke(h) \/ DisableBadge(h)
    \/ DisableReload(h)
    \/ RemoveGet(h) \/ RemoveSave(h) \/ RemoveRevoke(h)
    \/ RemoveAllGet(h) \/ RemoveAllRevoke(h) \/ RemoveAllSave(h)
    \/ UpdatedGet(h) \/ UpdatedContains(h) \/ UpdatedInject(h) \/ UpdatedBadge(h)
    \/ UpdatedSave(h)
    \/ ActivatedTab(h) \/ ActivatedGet(h) \/ ActivatedBadge(h)
    \/ Finish(h)

Requests ==
    \/ ToggleStart
    \/ \E o \in Origins \cup {OriginC} : RemoveStart(o)
    \/ RemoveAllStart

TabEvents ==
    \/ \E t \in Tabs : UpdatedStart(t)
    \/ \E t \in Tabs : ActivatedStart(t)
    \/ \E t \in Tabs : \E u \in Tabs : CloseActiveTab(t, u)
    \/ \E t \in Tabs : \E url \in Urls : Navigate(t, url)
    \/ \E t \in Tabs : CloseTab(t)

\* everything but a revocation of a grant outside the extension
NextNoRevoke ==
    \/ \E h \in Slots : HandlerStep(h)
    \/ Requests
    \/ TabEvents
    \/ PopupRequest

Next ==
    \/ NextNoRevoke
    \/ \E p \in {Pattern(o) : o \in Origins \cup {OriginC}} : ExternalRevoke(p)

Spec == Init /\ [][Next]_vars

QueryStep(h) == GetStatusTab(h) \/ GetStatusGet(h) \/ ListGet(h)

\* every message type the popup and the options page send, and the listeners
NextMsg ==
    \/ Next
    \/ GetStatusStart
    \/ ListStart
    \/ \E type \in OtherTypes : OtherStart(type)
    \/ \E h \in Slots : QueryStep(h)

SpecMsg == Init /\ [][NextMsg]_vars

\* The event loop runs every continuation whose awaited browser call has
\* settled, and every browser call settles (the user answers or dismisses
\* the permission prompt): each handler keeps taking its steps.
Fairness == \A h \in Slots : WF_vars(HandlerStep(h) \/ QueryStep(h))

\* the worker starts with exactly the listed origins granted
InitLive == Init /\ granted = {Pattern(storage[k]) : k \in 1..Len(storage)}

SpecLive == InitLive /\ [][NextMsg]_vars /\ Fairness

\* the popup drives the background; the options page and the tabs go on
NextPopup ==
    \/ Next
    \/ PopupStep
    \/ ListStart
    \/ \E h \in Slots : QueryStep(h)

SpecPopup == Init /\ [][NextPopup]_vars

\* the steps of the navigation-complete listener for a listed origin that
\* holds its grant
UpdatedStep(h) ==
    \/ UpdatedGet(h) \/ UpdatedContains(h) \/ UpdatedInject(h) \/ UpdatedBadge(h)
    \/ Finish(h)

\* the page of tab 1 has just loaded (its navigation-complete event is
\* due); its origin is in the Allow-list and holds its grant; its document
\* is an HTML document or a document without a body
InitPage ==
    /\ storage = <<extractOrigin(UrlA)>>
    /\ granted = {Pattern(extractOrigin(UrlA))}
    /\ active = 1
    /\ tabUrl = [t \in Tabs |-> IF t = 1 THEN UrlA ELSE UrlB]
    /\ tabOpen = [t \in Tabs |-> TRUE]
    /\ tabStatus = [t \in Tabs |-> IF t \in PageTabs THEN "loading" ELSE "complete"]
    /\ tabBadge = [t \in Tabs |-> ""]
    /\ marker = [t \in Tabs |-> FALSE]
    /\ page = [t \in Tabs |-> FreshPage]
    /\ dom \in {[t \in Tabs |-> IF t \in PageTabs THEN d ELSE FreshDom] :
                   d \in {FreshDom, NoBodyDom}}
    /\ popup = PopupClosed
    /\ slot = [h \in Slots |-> Idle]
    /\ snap = NoSnap
    /\ ops = 0
    /\ mode = "page"

\* page scripts, dispatches and observer callbacks, with the
\* navigation-complete listener injecting the payload
NextPage ==
    \/ \E t \in Tabs : UpdatedStart(t)
    \/ \E h \in Slots : UpdatedStep(h)
    \/ PageStep

SpecPage == InitPage /\ [][NextPage]_vars

SpecConc == InitConc /\ [][Next]_vars

SpecWide == InitWide /\ [][Next]_vars

\* interleaved handlers, started from a list whose origins all hold their
\* grant, and no revocation outside the extension
InitConcGranted ==
    /\ InitBase(Origins)
    /\ tabStatus \in [Tabs -> {"loading", "complete"}]
    /\ mode = "conc"
    /\ \A k \in 1..Len(storage) : Pattern(storage[k]) \in granted

SpecConcNoRevoke == InitConcGranted /\ [][NextNoRevoke]_vars

-----------------------------------------------------------------------------
(* Properties *)

Members(l) == {l[k] : k \in 1..Len(l)}

\* handler h has answered (or ended), nothing else ran since it started, and
\* snap.pre is the state it started in
Alone(h, type) == slot[h].pc = "done" /\ slot[h].type = type /\ Solo(h)

\* a toggle of a supported tab whose origin was not in the Allow-list and
\* whose permission request was denied / granted
DeniedEnable(h) ==
    /\ Alone(h, "toggle")
    /\ slot[h].origin # Null
    /\ slot[h].origin \notin Members(snap.pre.storage)
    /\ ~slot[h].ok

GrantedEnable(h) ==
    /\ Alone(h, "toggle")
    /\ slot[h].origin # Null
    /\ slot[h].origin \notin Members(snap.pre.storage)
    /\ slot[h].ok

\* a toggle of a supported tab whose origin was in the Allow-list
Disable(h) ==
    /\ Alone(h, "toggle")
    /\ slot[h].origin # Null
    /\ slot[h].origin \in Members(snap.pre.storage)

\* C1: when an enable (toggle on a tab showing an origin that is not in the
\* Allow-list) is denied the permission, the Allow-list and every badge are
\* what they were before the request, no injection was attempted (no page
\* context changed), no grant changed, and the response is success=false,
\* enabled=false.
C1_DeniedEnableChangesNothing ==
    \A h \in Slots :
        DeniedEnable(h) =>
            /\ storage = snap.pre.storage
            /\ tabBadge = snap.pre.badge
            /\ "inject" \notin slot[h].fx
            /\ marker = snap.pre.marker
            /\ granted = snap.pre.granted
            /\ slot[h].resp = [success |-> FALSE, enabled |-> FALSE]

\* a denied enable on a tab whose stale badge is ON, with another origin listed
C1_Witness ==
    \E h \in Slots :
        /\ DeniedEnable(h)
        /\ snap.pre.storage # <<>>
        /\ snap.pre.badge[slot[h].tab] = "ON"

\* C2: when an enable is granted, at the response the Allow-list is the old
\* list with the origin appended once, the tab's badge is ON, the injection
\* was attempted and the response is success=true, enabled=true; and while
\* the enable runs the Allow-list differs from the old one only after the grant.
C2_GrantedEnable ==
    \A h \in Slots :
        /\ GrantedEnable(h) =>
              /\ storage = Append(snap.pre.storage, slot[h].origin)
              /\ tabBadge[slot[h].tab] = "ON"
              /\ "inject" \in slot[h].fx
              /\ slot[h].resp = [success |-> TRUE, enabled |-> TRUE]
        /\ (slot[h].type = "toggle" /\ Solo(h) /\ storage # snap.pre.storage
              /\ slot[h].origin \notin Members(snap.pre.storage)) =>
              /\ slot[h].ok
              /\ Pattern(slot[h].origin) \in granted

\* a granted enable with a prompt (no grant before), another origin listed
C2_Witness ==
    \E h \in Slots :
        /\ GrantedEnable(h)
        /\ snap.pre.storage # <<>>
        /\ Pattern(slot[h].origin) \notin snap.pre.granted

\* C3: a disable ends with the origin absent from the Allow-list, its
\* pattern not granted, the tab reloaded (navigation-complete due, fresh page
\* context), the tab's badge OFF and the response success=true,
\* enabled=false, whether or not the revoke threw.
C3_Disable ==
    \A h \in Slots :
        Disable(h) =>
            /\ slot[h].origin \notin Members(storage)
            /\ Pattern(slot[h].origin) \notin granted
            /\ "reload" \in slot[h].fx
            /\ tabStatus[slot[h].tab] = "loading"
            /\ ~marker[slot[h].tab]
            /\ tabBadge[slot[h].tab] = ""
            /\ slot[h].resp = [success |-> TRUE, enabled |-> FALSE]

\* a disable whose revoke threw (the grant had been revoked outside)
C3_Witness ==
    \E h \in Slots :
        /\ Disable(h)
        /\ slot[h].threw
        /\ snap.pre.badge[slot[h].tab] = "ON"

\* a disable that directly follows the successful enable of the same origin
\* on the same tab; snap.chain.pre is the state before that enable
RoundTrip(h) ==
    /\ Disable(h)
    /\ snap.chain # NoChain
    /\ snap.chain.tab = slot[h].tab
    /\ snap.chain.origin = slot[h].origin

\* C4 as stated: a successful enable followed by a disable restores
\* Allow-list membership, every grant and the tab's badge to their values
\* before the enable, also when the grant existed before the enable.
C4_RoundTripRestores ==
    \A h \in Slots :
        RoundTrip(h) =>
            /\ Members(storage) = Members(snap.chain.pre.storage)
            /\ granted = snap.chain.pre.granted
            /\ tabBadge[slot[h].tab] = snap.chain.pre.badge[slot[h].tab]

\* C4 amended: the round trip restores the Allow-list and the grant of every
\* other pattern; the origin's own pattern is not granted and the tab's badge
\* is OFF afterwards, whatever they were before the enable.
C4_RoundTripAmended ==
    \A h \in Slots :
        RoundTrip(h) =>
            /\ storage = snap.chain.pre.storage
            /\ granted = snap.chain.pre.granted \ {Pattern(slot[h].origin)}
            /\ tabBadge[slot[h].tab] = ""

\* a round trip that started with the grant present and other grants around
C4_Witness ==
    \E h \in Slots :
        /\ RoundTrip(h)
        /\ Pattern(slot[h].origin) \in snap.chain.pre.granted
        /\ snap.chain.pre.granted # {Pattern(slot[h].origin)}
        /\ snap.chain.pre.storage # <<>>

\* the navigation-complete handler of a tab showing an origin that was in the
\* Allow-list without its grant when the event arrived
Reconcile(h) ==
    /\ Alone(h, "onUpdated")
    /\ slot[h].origin # Null
    /\ slot[h].origin \in Members(snap.pre.storage)
    /\ Pattern(slot[h].origin) \notin snap.pre.granted

\* C5: the navigation-complete handler of a tab showing an origin that is in
\* the Allow-list without its grant removes that origin from the Allow-list,
\* keeps every other origin and attempts no injection.
C5_Reconciliation ==
    \A h \in Slots :
        Reconcile(h) =>
            /\ Members(storage) = Members(snap.pre.storage) \ {slot[h].origin}
            /\ Len(storage) = Len(snap.pre.storage) - 1
            /\ "inject" \notin slot[h].fx
            /\ marker = snap.pre.marker

\* a reconciliation that has another origin to keep
C5_Witness ==
    \E h \in Slots : Reconcile(h) /\ Len(snap.pre.storage) = 2

\* C6 as stated: with no revocation outside the extension, whenever no
\* handler is in flight every origin of the Allow-list holds its grant,
\* under every interleaving of the handlers.
C6_AllowListGranted ==
    Quiescent => \A o \in Members(storage) : Pattern(o) \in granted

\* C7 as stated: when the handler of an observation point of a tab (toggle,
\* navigation-complete, activation) has finished, the tab's badge is ON
\* exactly if the tab's origin is in the Allow-list.
C7_BadgeReflectsAllowList ==
    \A h \in Slots :
        (/\ slot[h].pc = "done"
         /\ Solo(h)
         /\ slot[h].type \in {"toggle", "onUpdated", "onActivated"}
         /\ slot[h].tab # NoTab)
        => (tabBadge[slot[h].tab] = "ON" <=> OriginOf(slot[h].tab) \in Members(storage))

\* C8 as stated: whenever executeScript runs the payload in a tab, the origin
\* the tab shows at that moment is in the Allow-list.
C8_InjectOnlyAllowed ==
    [][\A h \in Slots :
         ("injected" \in slot'[h].fx /\ "injected" \notin slot[h].fx)
         => OriginOf(slot[h].tab) \in Members(storage)]_vars

\* the list without the origin, entry by entry
RECURSIVE Without(_, _)
Without(l, o) ==
    IF l = <<>> THEN <<>>
    ELSE IF Head(l) = o THEN Without(Tail(l), o)
    ELSE <<Head(l)>> \o Without(Tail(l), o)

\* C9: removeOrigin answers success=true with the list without the origin,
\* the other entries in their order, stores exactly that list, leaves the
\* origin's pattern not granted and every other grant as it was; a list
\* without the origin is left as it is.
C9_RemoveOrigin ==
    \A h \in Slots :
        Alone(h, "removeOrigin") =>
            /\ slot[h].resp = [success |-> TRUE,
                               origins |-> Without(snap.pre.storage, slot[h].arg)]
            /\ storage = Without(snap.pre.storage, slot[h].arg)
            /\ granted = snap.pre.granted \ {Pattern(slot[h].arg)}
            /\ slot[h].arg \notin Members(snap.pre.storage) => storage = snap.pre.storage

\* the middle one of three origins is removed, its grant and another present
C9_Witness ==
    \E h \in Slots :
        /\ Alone(h, "removeOrigin")
        /\ Len(snap.pre.storage) = 3
        /\ snap.pre.storage[2] = slot[h].arg
        /\ Pattern(slot[h].arg) \in snap.pre.granted
        /\ granted # {}

\* C10: when removeAllOrigins has answered, the Allow-list is empty, no
\* origin that was in it holds its grant, and the response is success=true,
\* also when a revoke threw.
C10_RemoveAll ==
    \A h \in Slots :
        Alone(h, "removeAllOrigins") =>
            /\ storage = <<>>
            /\ \A o \in Members(snap.pre.storage) : Pattern(o) \notin granted
            /\ slot[h].resp = [success |-> TRUE]

\* the revoke of the first origin threw and the second origin held its grant
C10_Witness ==
    \E h \in Slots :
        /\ Alone(h, "removeAllOrigins")
        /\ Len(snap.pre.storage) = 2
        /\ Pattern(snap.pre.storage[1]) \notin snap.pre.granted
        /\ Pattern(snap.pre.storage[2]) \in snap.pre.granted
        /\ slot[h].threw

\* C11: getStatus answers from the active tab's URL and the stored Allow-list
\* as they are during the call: supported=false, enabled=false, origin=null
\* when there is no tab, no URL or no http(s) URL; otherwise supported=true,
\* the tab's origin and enabled = the origin is in the Allow-list.
C11_GetStatusFresh ==
    \A h \in Slots :
        Alone(h, "getStatus") =>
            slot[h].resp =
                IF OriginOf(active) = Null
                THEN [enabled |-> FALSE, origin |-> Null, supported |-> FALSE]
                ELSE [enabled |-> OriginOf(active) \in Members(storage),
                      origin |-> OriginOf(active), supported |-> TRUE]

\* a call after tab 1 has navigated from a.example to b.example, whose
\* origin is in the Allow-list
C11_Witness ==
    \E h \in Slots :
        /\ Alone(h, "getStatus")
        /\ active = 1
        /\ slot[h].resp = [enabled |-> TRUE, origin |-> extractOrigin(UrlB), supported |-> TRUE]

\* the messages handleMessage has a case for
KnownTypes == {"getStatus", "toggle", "getEnabledOrigins", "removeOrigin", "removeAllOrigins"}

\* C14: a message of an unhandled type is answered with an error field and
\* changes neither the Allow-list, nor a grant, nor a badge, nor a page, nor
\* a tab; the request after it is served as usual.
C14_UnknownType ==
    \A h \in Slots :
        /\ (slot[h].type \notin KnownTypes \cup {"idle", "onUpdated", "onActivated"}) =>
              /\ slot[h].pc = "done"
              /\ "error" \in DOMAIN slot[h].resp
              /\ Solo(h) => CurSt = snap.pre
        /\ (Alone(h, slot[h].type) /\ snap.afterUnknown /\ slot[h].type \in KnownTypes) =>
              /\ slot[h].resp # NoResp
              /\ "error" \notin DOMAIN slot[h].resp

\* a getStatus served right after a message of an unhandled type
C14_Witness ==
    \E h \in Slots :
        /\ Alone(h, "getStatus")
        /\ snap.afterUnknown
        /\ slot[h].resp.supported
        /\ snap.pre.storage # <<>>

\* C12 as stated: a request of type enable or disable sent by the
\* explicit-intent popup is answered with the fields success and enabled;
\* after an enable (the permission was granted in the popup) the origin is in
\* the Allow-list and enabled=true, after a disable it is not and enabled=false.
C12_EnableDisableServed ==
    \A h \in Slots :
        (slot[h].type \in {"enable", "disable"} /\ slot[h].pc = "done" /\ popup.h = h) =>
            /\ {"success", "enabled"} \subseteq DOMAIN slot[h].resp
            /\ slot[h].resp.enabled = (slot[h].type = "enable")
            /\ (popup.target \in Members(storage)) = (slot[h].type = "enable")

EnablePcs == {"e_req", "e_get", "e_save", "e_inj", "e_badge"}
DisablePcs == {"d_get", "d_save", "d_rm", "d_badge", "d_reload"}

\* the gesture switched the control on / off
SwitchedOn == ~popup.before /\ popup.checked
SwitchedOff == popup.before /\ ~popup.checked

\* C13 as stated: whatever happened to the Allow-list since the popup
\* displayed the status, the request of a gesture that switched the control
\* off never runs the enable (nor prompts for the permission), and the
\* request of a gesture that switched it on never runs the disable.
C13_ExplicitIntent ==
    /\ (popup.pc = "p_toggle" /\ slot[popup.h].origin = popup.origin) =>
          /\ SwitchedOff => slot[popup.h].pc \notin EnablePcs
          /\ SwitchedOn => slot[popup.h].pc \notin DisablePcs
    /\ (popup.pc \in {"x_req", "x_send", "x_act"} /\ popup.target = popup.origin) =>
          /\ SwitchedOff => popup.pc # "x_req" /\ popup.action # "enable"
          /\ SwitchedOn => popup.action # "disable"

\* the change handler of the popup has ended
AttemptOver == popup.pc \in {"ready", "stuck"} /\ popup.last # NoResp

\* C18 as stated: after a failed attempt the control shows the state it had
\* before the click and is enabled again; after a successful one the control
\* and the label show the enabled value of the response; while the request
\* is in flight the control is disabled.
C18_PopupControl ==
    /\ (AttemptOver /\ ~succeeded(popup.last)) =>
          /\ popup.checked = popup.before
          /\ ~popup.disabled
    /\ (AttemptOver /\ succeeded(popup.last)) =>
          /\ popup.checked = popup.last.enabled
          /\ popup.label = popup.last.enabled
    /\ popup.pc \in {"p_toggle", "x_status", "x_req", "x_send", "x_act"} => popup.disabled

\* a granted enable whose injection failed
FailedInjection(h) ==
    /\ slot[h].type = "toggle"
    /\ slot[h].pc = "done"
    /\ slot[h].ok
    /\ "inject" \in slot[h].fx
    /\ "injected" \notin slot[h].fx

\* C15 as stated: a granted enable whose injection failed (tab closed,
\* privileged page, navigation in flight) still ends with the origin in the
\* Allow-list, the badge set and the response success=true, enabled=true;
\* and a navigation-complete handler that finds the origin listed and
\* granted attempts the injection.
C15_InjectionFailureSwallowed ==
    \A h \in Slots :
        /\ FailedInjection(h) =>
              /\ slot[h].origin \in Members(storage)
              /\ slot[h].resp = [success |-> TRUE, enabled |-> TRUE]
              /\ tabBadge[slot[h].tab] = "ON"
        /\ (slot[h].type = "onUpdated" /\ slot[h].pc = "done" /\ slot[h].ok) =>
              "inject" \in slot[h].fx

\* what the payload installs in a fresh page context
Installed == payloadBody(FreshPage)

\* C16: a page context whose marker is set holds exactly one wrapper of
\* addEventListener, one capture listener per event of BLOCKED_EVENTS, one
\* style element and one observer, however often the payload ran in it; the
\* marker, once set, is unset only by a fresh page context (navigation,
\* reload, or the tab closing).
C16_InjectionIdempotent ==
    [][\A t \in Tabs :
         /\ page'[t] = IF marker'[t] THEN Installed ELSE FreshPage
         /\ (marker[t] /\ marker'[t]) => page'[t] = page[t]
         /\ (marker[t] /\ ~marker'[t]) => (tabStatus'[t] = "loading" \/ ~tabOpen'[t])]_vars

\* the payload ran a second time in a page context whose marker was set
C16_Witness ==
    \E h \in Slots : "again" \in slot[h].fx /\ marker[slot[h].tab]

\* C19: the stored Allow-list never holds an origin twice.
C19_NoDuplicates ==
    \A j, k \in 1..Len(storage) : storage[j] = storage[k] => j = k

\* two concurrent enables of the same origin have both pushed it and saved
C19_Witness ==
    \E g, h \in Slots :
        /\ g # h
        /\ slot[g].type = "toggle" /\ slot[h].type = "toggle"
        /\ slot[g].origin = slot[h].origin
        /\ "pushed" \in slot[g].fx /\ "pushed" \in slot[h].fx
        /\ slot[g].pc \in {"e_inj", "e_badge", "done"}
        /\ slot[h].pc \in {"e_inj", "e_badge", "done"}
        /\ Len(storage) = 2

Listeners == {"onUpdated", "onActivated"}

\* C20: no step of the navigation-complete handler or of the tab-activation
\* handler changes the set of granted patterns.
C20_ListenersKeepGrants ==
    [][\A h \in Slots :
         (slot'[h] # slot[h] /\ (slot[h].type \in Listeners \/ slot'[h].type \in Listeners))
         => granted' = granted]_vars

\* a navigation-complete handler has tested the permission, injected and
\* set the badge while another origin held a grant too
C20_Witness ==
    \E h \in Slots :
        /\ slot[h].type = "onUpdated"
        /\ slot[h].pc = "done"
        /\ "injected" \in slot[h].fx
        /\ Cardinality(granted) = 2

\* C17: every message the background receives is answered: its handler
\* reaches sendResponse; it returns only after having answered, and once it
\* has answered it does nothing but return (one response per request).
C17_EveryRequestAnswered ==
    /\ \A h \in Slots :
          (slot[h].type \in KnownTypes \cup OtherTypes)
              ~> (slot[h].pc = "done" /\ slot[h].resp # NoResp)
    /\ [][\A h \in Slots :
             /\ (slot[h].type \in KnownTypes \cup OtherTypes /\ slot'[h].type = "idle")
                   => slot[h].resp # NoResp
             /\ (slot[h].resp # NoResp /\ slot'[h] # slot[h]) => slot'[h] = Idle]_vars

\* a request answered from the catch block: the badge update of an enable
\* was rejected because the tab had been closed
C17_Witness ==
    \E h \in Slots :
        /\ slot[h].type = "toggle"
        /\ slot[h].pc = "done"
        /\ slot[h].resp = ErrorResp
        /\ slot[h].ok

QueryTypes == {"getStatus", "getEnabledOrigins"}

\* C24: no step of a getStatus or getEnabledOrigins handler (its dispatch,
\* its awaits, its response, its return) changes the stored Allow-list, a
\* grant, a badge, an injection marker or what the payload installed in a
\* page; getEnabledOrigins answers with exactly the stored Allow-list, the
\* empty list when nothing is stored.
C24_QueriesReadOnly ==
    [][\A h \in Slots :
         (slot'[h] # slot[h] /\ (slot[h].type \in QueryTypes \/ slot'[h].type \in QueryTypes))
         => /\ UNCHANGED <<storage, granted, tabBadge, marker, page, dom>>
            /\ (slot'[h].type = "getEnabledOrigins" /\ slot'[h].pc = "done")
                  => slot'[h].resp = [origins |-> storage]]_vars

\* getEnabledOrigins has answered with a stored list of two origins while a
\* grant, a badge and an injected page were in place
C24_Witness ==
    \E h \in Slots :
        /\ slot[h].type = "getEnabledOrigins"
        /\ slot[h].pc = "done"
        /\ Len(slot[h].resp.origins) = 2
        /\ granted # {}
        /\ \E t \in Tabs : marker[t] /\ tabBadge[t] = "ON"

\* C21 as stated: once the payload has run in a page, a dispatch of an event
\* of one of the seven types (contextmenu, selectstart, copy, cut, paste,
\* dragstart, drag) invokes no handler of the page: the payload's capture
\* listener stops the event first, whatever the page registered, where and
\* when.
C21_CaptureStopsFirst ==
    \A t \in Tabs :
        (dom[t].event # NoEvent /\ dom[t].event.injected
            /\ dom[t].event.type \in ALL_BLOCKED)
        => dom[t].event.ran = <<>>

\* C22: once the payload has run, a page call of addEventListener for one
\* of the seven types leaves every listener list as it was, and a call for
\* another type has the effect of the browser's addEventListener called
\* with the same target, type, listener and options.
C22_RegistrationIntercepted ==
    [][\A t \in Tabs :
         (marker[t] /\ marker'[t] /\ dom'[t].call # NoCall)
         => dom'[t].listeners =
               IF dom'[t].call.type \in ALL_BLOCKED
               THEN dom[t].listeners
               ELSE originalAddEventListener(dom[t].listeners, dom'[t].call.this,
                                             dom'[t].call.type, "page",
                                             dom'[t].call.capture)]_vars

\* after the payload ran in a page that had a click listener, the page
\* called addEventListener for dragstart and the call registered nothing
C22_Witness ==
    \E t \in Tabs :
        /\ marker[t]
        /\ dom[t].call # NoCall
        /\ dom[t].call.type = "dragstart"
        /\ Total(dom[t].listeners) = 1
        /\ \E n \in Static \cup Created : \E k \in 1..Len(dom[t].listeners[n]) :
              dom[t].listeners[n][k].owner = "page" /\ dom[t].listeners[n][k].type = "click"

\* element e has no inline handler for any of the seven types
NoInline(d, e) == \A type \in ALL_BLOCKED : <<e, type>> \notin Inline(d.listeners)

\* C23: when the observer callback has run for added nodes, each of them and
\* each of its descendants has no inline handler for any of the seven types;
\* when the payload has run, the document, the root element and the body (if
\* there is one) have none.
C23_InlineHandlersCleared ==
    [][\A t \in Tabs :
         /\ (dom[t].pending # {} /\ dom'[t].pending = {} /\ marker'[t])
               => \A n \in dom[t].pending : \A e \in {n} \cup querySelectorAll(n) :
                     NoInline(dom'[t], e)
         /\ (~marker[t] /\ marker'[t])
               => \A e \in {"document", "html"} \cup (IF dom[t].body THEN {"body"} ELSE {}) :
                     NoInline(dom'[t], e)]_vars

\* the observer callback has just set to null the contextmenu handler of the
\* added element n1 and the dragstart handler of its child n2
C23_Witness ==
    \E t \in Tabs :
        /\ marker[t]
        /\ dom[t].attached = "body"
        /\ dom[t].pending = {}
        /\ dom[t].removed = {<<"n1", "contextmenu">>, <<"n2", "dragstart">>}

====
